---- MODULE Spec2Model ----
(***************************************************************************)
(* Model of OIS_Fetcher.py: one run fetches a window of daily Fed Funds    *)
(* futures prices, derives the Implied FF and the 1M OIS records of the    *)
(* selected rows, and writes them one by one with put_item.                *)
(*                                                                         *)
(* Numbers.  A close price is held in hundredths of a price unit (9500 is  *)
(* 95.00), so that every quantity the control flow depends on is an exact  *)
(* integer:                                                                *)
(*   implied_annual_ff_rate_decimal = (10000 - c) / 10000                  *)
(*   daily_rate_decimal             = (10000 - c) / 3600000                *)
(*   1 + daily_rate_decimal         = (3600000 + 10000 - c) / 3600000      *)
(* The stored value strings are kept as [form, arg]: form "pct4" is the    *)
(* 4-decimal rendering of arg/10000, "nan" is the rendering of a NaN, and  *)
(* "ois4" is the 4-decimal rendering of ((arg/3600000)^30 - 1) * 1200,     *)
(* kept unevaluated because the 30th power does not fit the checker's      *)
(* integers.                                                               *)
(***************************************************************************)
EXTENDS Integers, Sequences, FiniteSets, TLC

\* ---------------------------------------------------------------- bounds
MaxRows == 4

\* ------------------------------------------------------ program constants
TAIL_ROWS == 60
DAY_COUNT == 360

METRIC_ID_OIS == "CALCULATED_OIS_1M_RATE"
METRIC_ID_IMPLIED_FF == "IMPLIED_FF_RATE"

\* --------------------------------------------------------------- helpers
None == [is_none |-> TRUE, rows |-> <<>>]
DataFrame(rows) == [is_none |-> FALSE, rows |-> rows]

\* DataFrame.tail(n): the last n rows, in order; all of them when fewer.
TailRows(rows, n) ==
    IF Len(rows) <= n THEN rows ELSE SubSeq(rows, Len(rows) - n + 1, Len(rows))

\* utcoffset of the index's tzinfo, in seconds (EST for the exchange zone).
UtcOffset(tz) == IF tz = "America/New_York" THEN 0 - 18000 ELSE 0

\* Lines 83-88: a naive index is localized as UTC (its wall clock is taken
\* as UTC), an aware one is converted to UTC; then seconds -> milliseconds.
\* Variant: the wall clock is read as UTC whatever the tzinfo.
TimestampMs_WallClock(index_date) == index_date.wall * 1000
TimestampMs(index_date) ==
    IF index_date.tz = "none"
    THEN index_date.wall * 1000
    ELSE (index_date.wall - UtcOffset(index_date.tz)) * 1000

\* float(row['Close']): a number, a NaN, or ValueError for text.
\* Variant: unparsable text is coerced to NaN instead of raising.
ParseClose_Coerce(cell) ==
    IF cell.kind = "bad" THEN [raised |-> FALSE, kind |-> "nan", c |-> 0]
    ELSE [raised |-> FALSE, kind |-> cell.kind, c |-> cell.c]
ParseClose(cell) ==
    IF cell.kind = "bad" THEN [raised |-> TRUE, kind |-> "bad", c |-> 0]
    ELSE [raised |-> FALSE, kind |-> cell.kind, c |-> cell.c]

\* Line 106: 1 + daily_rate_decimal > 0.  Any comparison with NaN is false.
BaseNumerator(c) == DAY_COUNT * 10000 + (10000 - c)
\* Variants: the rate taken in percent, not as a decimal; >= for >.
BasePositive_NoPercent(p) == p.kind = "num" /\ DAY_COUNT * 100 + (10000 - p.c) > 0
BasePositive_OrZero(p) == p.kind = "num" /\ BaseNumerator(p.c) >= 0
BasePositive(p) == p.kind = "num" /\ BaseNumerator(p.c) > 0

\* Lines 93-101.
ItemFF(ts, p) ==
    [metricId |-> METRIC_ID_IMPLIED_FF, timestamp |-> ts,
     value |-> IF p.kind = "nan" THEN [form |-> "nan", arg |-> 0]
               ELSE [form |-> "pct4", arg |-> (10000 - p.c) * 100]]

\* Lines 107-115.
ItemOIS(ts, p) ==
    [metricId |-> METRIC_ID_OIS, timestamp |-> ts,
     value |-> [form |-> "ois4", arg |-> BaseNumerator(p.c)]]

\* Lines 79-126: the requests one row appends to items_to_put.
\* Variant: the OIS request appended before the Implied FF request.
RowItems_OisFirst(row) ==
    LET ts == TimestampMs(row.index_date)
        p == ParseClose(row.Close)
    IN  IF p.raised THEN <<>>
        ELSE IF BasePositive(p) THEN <<ItemOIS(ts, p), ItemFF(ts, p)>>
        ELSE <<ItemFF(ts, p)>>
RowItems(row) ==
    LET ts == TimestampMs(row.index_date)
        p == ParseClose(row.Close)
    IN  IF p.raised THEN <<>>
        ELSE IF BasePositive(p) THEN <<ItemFF(ts, p), ItemOIS(ts, p)>>
        ELSE <<ItemFF(ts, p)>>

\* put_item on a table keyed by (metricId, timestamp): replaces the item
\* that has the same key.
SameKey(a, b) == a.metricId = b.metricId /\ a.timestamp = b.timestamp
\* Variant: the item is added without replacing the one under its key.
StorePut_Append(table, item) == table \cup {item}
StorePut(table, item) == {x \in table : ~SameKey(x, item)} \cup {item}

\* Lines 29-56: None when the provider raises or returns an empty frame.
\* Variant: the frame is returned even though the provider raised.
FetchResult_Fallback(raises, hist_rows) ==
    IF hist_rows = <<>> THEN None ELSE DataFrame(hist_rows)
FetchResult(raises, hist_rows) ==
    IF raises THEN None
    ELSE IF hist_rows = <<>> THEN None
    ELSE DataFrame(hist_rows)

\* ------------------------------------------------------------ environment
\* The provider's window: one row per day, oldest first.  epoch_s is the
\* instant the row stands for; index_date is how the frame's index shows it.
MkRow(day, tz, cell) ==
    [epoch_s |-> day * 86400 - UtcOffset(tz),
     index_date |-> [wall |-> day * 86400, tz |-> tz],
     Close |-> cell]
MkMarket(tz, cells) == [d \in 1..Len(cells) |-> MkRow(d, tz, cells[d])]

Num(c) == [kind |-> "num", c |-> c]
NaN == [kind |-> "nan", c |-> 0]
Bad == [kind |-> "bad", c |-> 0]

TzOptions == {"none", "America/New_York"}
BatchCells == {Num(9500), Num(3610000), NaN, Bad}
RowCells ==
    {Num(c) : c \in {0, 9500, 9567, 10000, 20000, 45999, 46000, 46001,
                     3609999, 3610000, 3610001}} \cup {NaN, Bad}

\* An item an earlier day's run left under the key of day 1's FF record.
StaleItem ==
    [metricId |-> METRIC_ID_IMPLIED_FF, timestamp |-> 86400 * 1000,
     value |-> [form |-> "pct4", arg |-> 12300]]

\* ------------------------------------------------------------------ state
VARIABLES pc, market, fetch_raised, historical_data, points_to_process_df, i,
          items_to_put, origin, put_log, store, report, store_at_start, prev

vars == <<pc, market, fetch_raised, historical_data, points_to_process_df, i,
          items_to_put, origin, put_log, store, report, store_at_start, prev>>

InitRun ==
    /\ pc = "start"
    /\ fetch_raised = FALSE
    /\ historical_data = None
    /\ points_to_process_df = <<>>
    /\ i = 1
    /\ items_to_put = <<>>
    /\ origin = <<>>
    /\ put_log = <<>>
    /\ report = "none"
    /\ store \in {{}, {StaleItem}}
    /\ store_at_start = store
    /\ prev = [valid |-> FALSE, store |-> {}]

Init ==
    /\ market \in {MkMarket(tz, cells) :
                     tz \in TzOptions,
                     cells \in UNION {[1..n -> BatchCells] : n \in 0..MaxRows}}
    /\ InitRun

InitRow ==
    /\ market \in {MkMarket(tz, <<cell>>) : tz \in TzOptions, cell \in RowCells}
    /\ InitRun

\* ---------------------------------------------------------------- actions
\* Line 144.
Fetch ==
    /\ pc = "start"
    /\ \E raises \in BOOLEAN :
         /\ fetch_raised' = raises
         /\ historical_data' = FetchResult(raises, market)
    /\ pc' = "fetched"
    /\ UNCHANGED <<market, points_to_process_df, i, items_to_put, origin,
                   put_log, store, report, store_at_start, prev>>

\* Line 145, condition false.
SkipCalculate ==
    /\ pc = "fetched"
    /\ historical_data.is_none
    /\ pc' = "end"
    /\ UNCHANGED <<market, fetch_raised, historical_data, points_to_process_df, i,
                   items_to_put, origin, put_log, store, report,
                   store_at_start, prev>>

\* Lines 145-146 and 63-77.
EnterCalculate ==
    /\ pc = "fetched"
    /\ ~historical_data.is_none
    /\ IF historical_data.rows = <<>>
          \/ TailRows(historical_data.rows, TAIL_ROWS) = <<>>
       THEN /\ pc' = "end"
            /\ report' = "no_data"
            /\ UNCHANGED points_to_process_df
       ELSE /\ pc' = "loop"
            /\ points_to_process_df' = TailRows(historical_data.rows, TAIL_ROWS)
            /\ UNCHANGED report
    /\ i' = 1
    /\ items_to_put' = <<>>
    /\ origin' = <<>>
    /\ UNCHANGED <<market, fetch_raised, historical_data, put_log, store,
                   store_at_start, prev>>

\* Lines 78-126, one iteration.
ProcessRow ==
    /\ pc = "loop"
    /\ i <= Len(points_to_process_df)
    /\ LET new == RowItems(points_to_process_df[i])
       IN  /\ items_to_put' = items_to_put \o new
           /\ origin' = origin \o [k \in 1..Len(new) |-> i]
    /\ i' = i + 1
    /\ UNCHANGED <<pc, market, fetch_raised, historical_data, points_to_process_df,
                   put_log, store, report, store_at_start, prev>>

\* Lines 128-130 and 138-139.
BeginStore ==
    /\ pc = "loop"
    /\ i > Len(points_to_process_df)
    /\ IF items_to_put # <<>>
       THEN pc' = "put" /\ UNCHANGED report
       ELSE pc' = "end" /\ report' = "no_items"
    /\ UNCHANGED <<market, fetch_raised, historical_data, points_to_process_df, i,
                   items_to_put, origin, put_log, store, store_at_start, prev>>

\* Lines 130-134 and 136-137, one iteration: the call either stores the item
\* or raises, and a raise leaves the loop for the except clause.
PutItem ==
    /\ pc = "put"
    /\ Len(put_log) < Len(items_to_put)
    /\ LET req == items_to_put[Len(put_log) + 1]
       IN  \E ok \in BOOLEAN :
             /\ put_log' = Append(put_log, [item |-> req, ok |-> ok])
             /\ IF ok
                THEN /\ store' = StorePut(store, req)
                     /\ UNCHANGED <<pc, report>>
                ELSE /\ pc' = "end"
                     /\ report' = "error"
                     /\ UNCHANGED store
    /\ UNCHANGED <<market, fetch_raised, historical_data, points_to_process_df, i,
                   items_to_put, origin, store_at_start, prev>>

\* Line 135.
StoreDone ==
    /\ pc = "put"
    /\ Len(put_log) = Len(items_to_put)
    /\ pc' = "end"
    /\ report' = "stored"
    /\ UNCHANGED <<market, fetch_raised, historical_data, points_to_process_df, i,
                   items_to_put, origin, put_log, store, store_at_start, prev>>

\* Line 147.
Finish ==
    /\ pc = "end"
    /\ pc' = "finished"
    /\ UNCHANGED <<market, fetch_raised, historical_data, points_to_process_df, i,
                   items_to_put, origin, put_log, store, report,
                   store_at_start, prev>>

\* The job is invoked again on the same price points: a fresh process, the
\* table as the previous run left it.
Rerun ==
    /\ pc = "finished"
    /\ pc' = "start"
    /\ prev' = IF report = "stored" THEN [valid |-> TRUE, store |-> store]
               ELSE [valid |-> FALSE, store |-> {}]
    /\ fetch_raised' = FALSE
    /\ historical_data' = None
    /\ points_to_process_df' = <<>>
    /\ i' = 1
    /\ items_to_put' = <<>>
    /\ origin' = <<>>
    /\ put_log' = <<>>
    /\ report' = "none"
    /\ store_at_start' = store
    /\ UNCHANGED <<market, store>>

Next ==
    \/ Fetch
    \/ SkipCalculate
    \/ EnterCalculate
    \/ ProcessRow
    \/ BeginStore
    \/ PutItem
    \/ StoreDone
    \/ Finish
    \/ Rerun

Spec == Init /\ [][Next]_vars
SpecRow == InitRow /\ [][Next]_vars

TypeOK ==
    /\ pc \in {"start", "fetched", "loop", "put", "end", "finished"}
    /\ report \in {"none", "no_data", "no_items", "stored", "error"}
    /\ i \in 1..(Len(points_to_process_df) + 1)
    /\ Len(origin) = Len(items_to_put)
    /\ Len(put_log) <= Len(items_to_put)

\* ----------------------------------------------------------------- claims
Processed == 1..(i - 1)
ItemIdx == 1..Len(items_to_put)
RunOver == pc \in {"end", "finished"}
FFOf(r) == {k \in ItemIdx : origin[k] = r /\ items_to_put[k].metricId = METRIC_ID_IMPLIED_FF}
OISOf(r) == {k \in ItemIdx : origin[k] = r /\ items_to_put[k].metricId = METRIC_ID_OIS}
Parsed(r) == points_to_process_df[r].Close.kind # "bad"
IsNum(r) == points_to_process_df[r].Close.kind = "num"
CloseOf(r) == points_to_process_df[r].Close.c

\* C1: a failed put_item does not abort the remaining writes: when the
\* storage phase is over every prepared record has been attempted, and every
\* record whose own write did not fail is in the store.
C1_FailedWriteDoesNotAbort ==
    (RunOver /\ items_to_put # <<>>) =>
        /\ Len(put_log) = Len(items_to_put)
        /\ \A k \in 1..Len(put_log) : put_log[k].ok => put_log[k].item \in store

\* C2: a row whose close cannot be parsed contributes no record, every other
\* processed row of the batch has its Implied FF record prepared, and when
\* the writes all succeed every prepared record is in the store.
C2_BadCloseSkipped ==
    /\ \A k \in ItemIdx : Parsed(origin[k])
    /\ \A r \in Processed : Parsed(r) => FFOf(r) # {}
    /\ (RunOver /\ report = "stored") =>
           \A k \in ItemIdx : items_to_put[k] \in store

C2_Witness ==
    /\ pc = "finished"
    /\ report = "stored"
    /\ \E r \in 2..(Len(points_to_process_df) - 1) :
         /\ ~Parsed(r)
         /\ Parsed(r - 1) /\ FFOf(r - 1) # {}
         /\ Parsed(r + 1) /\ FFOf(r + 1) # {}

\* C3: when the fetch raises or returns an empty result, the run issues no
\* put_item, leaves the store as it found it, prepares nothing and goes
\* straight to the end of the main flow.
C3_NoDataNoWrites ==
    (pc # "start" /\ (fetch_raised \/ market = <<>>)) =>
        /\ pc \in {"fetched", "end", "finished"}
        /\ put_log = <<>>
        /\ items_to_put = <<>>
        /\ store = store_at_start
        /\ report = "none"

C3_Witness ==
    /\ pc = "finished"
    /\ fetch_raised
    /\ market # <<>>
    /\ put_log = <<>>

\* C4: every processed row that parsed has exactly one Implied FF record,
\* and one OIS record exactly when 1 + ((100 - close) / 100) / 360 > 0
\* (in hundredths: 3600000 + 10000 - c > 0), none otherwise.
C4_OneOrTwoRecords ==
    \A r \in Processed :
        Parsed(r) =>
            /\ Cardinality(FFOf(r)) = 1
            /\ Cardinality(OISOf(r)) =
                 IF IsNum(r) /\ 3600000 + 10000 - CloseOf(r) > 0 THEN 1 ELSE 0

C4_Witness ==
    /\ pc = "finished"
    /\ Len(points_to_process_df) = 1
    /\ IsNum(1) /\ CloseOf(1) = 46000
    /\ Cardinality(FFOf(1)) = 1
    /\ Cardinality(OISOf(1)) = 1

\* C5 as stated: for every row with close >= 460 the OIS record is skipped
\* while the Implied FF record is produced.
C5_SkippedFrom460 ==
    \A r \in Processed :
        (IsNum(r) /\ CloseOf(r) >= 46000) => (OISOf(r) = {} /\ FFOf(r) # {})

\* C5 amended: for every row with close >= 36100 (= 100 + 100 * 360) the
\* compounding base is <= 0, the OIS record is skipped and the Implied FF
\* record is produced.
C5_SkippedFrom36100 ==
    \A r \in Processed :
        (IsNum(r) /\ CloseOf(r) >= 3610000) => (OISOf(r) = {} /\ FFOf(r) # {})

C5_Witness ==
    /\ pc = "finished"
    /\ Len(points_to_process_df) = 1
    /\ IsNum(1) /\ CloseOf(1) = 3610000
    /\ OISOf(1) = {}
    /\ FFOf(1) = {1}

\* C6: the store never holds two records under one (metricId, timestamp)
\* key, and a run on the same price points right after a run whose writes
\* all succeeded, its own writes all succeeding, leaves the store as that
\* run left it.
C6_IdempotentOverwrite ==
    /\ \A a, b \in store : SameKey(a, b) => a = b
    /\ (RunOver /\ report = "stored" /\ prev.valid) => store = prev.store

C6_Witness ==
    /\ pc = "finished"
    /\ report = "stored"
    /\ prev.valid
    /\ Len(put_log) >= 2
    /\ StaleItem \notin store
    /\ \E x \in store : SameKey(x, StaleItem)

\* C7: every prepared record has the epoch-millisecond timestamp of the row
\* it was derived from and one of the two metric ids; records of one row
\* share their timestamp; every record the runs wrote has one of the two
\* metric ids and the timestamp of a row of the data.
C7_TimestampAndMetricId ==
    /\ \A k \in ItemIdx :
         /\ items_to_put[k].timestamp = points_to_process_df[origin[k]].epoch_s * 1000
         /\ items_to_put[k].metricId \in {METRIC_ID_IMPLIED_FF, METRIC_ID_OIS}
    /\ \A k, l \in ItemIdx :
         origin[k] = origin[l] => items_to_put[k].timestamp = items_to_put[l].timestamp
    /\ \A x \in store \ {StaleItem} :
         /\ x.metricId \in {METRIC_ID_IMPLIED_FF, METRIC_ID_OIS}
         /\ \E d \in 1..Len(market) : x.timestamp = market[d].epoch_s * 1000

C7_Witness ==
    /\ pc = "finished"
    /\ \E d \in 1..Len(market) : market[d].index_date.tz = "America/New_York"
    /\ \E a, b \in store :
         /\ a.metricId = METRIC_ID_IMPLIED_FF
         /\ b.metricId = METRIC_ID_OIS
         /\ a.timestamp = b.timestamp

\* C8: the run reports success exactly when at least one write succeeded,
\* and failure when none did.
C8_SuccessIffAnyWriteSucceeded ==
    (RunOver /\ put_log # <<>>) =>
        /\ (report = "stored") <=> (\E k \in 1..Len(put_log) : put_log[k].ok)
        /\ (\A k \in 1..Len(put_log) : ~put_log[k].ok) => report = "error"

\* C9: exactly the last min(n, 3) rows of the input are processed, in their
\* original order.
C9_LastThreeRows ==
    (pc \in {"loop", "put"}) =>
        LET n == Len(historical_data.rows)
            m == IF n < 3 THEN n ELSE 3
        IN  points_to_process_df = SubSeq(historical_data.rows, n - m + 1, n)

\* C10: no put_item is issued before every selected row has been processed;
\* the writes issued so far are a prefix of the prepared list; the prepared
\* list follows the order of the rows, each row's Implied FF record
\* immediately before its OIS record.
C10_TwoOrderedPhases ==
    /\ put_log # <<>> => (i > Len(points_to_process_df) /\ pc # "loop")
    /\ pc = "loop" => store = store_at_start
    /\ \A k \in 1..Len(put_log) : put_log[k].item = items_to_put[k]
    /\ \A k \in ItemIdx :
         /\ k > 1 => origin[k - 1] <= origin[k]
         /\ items_to_put[k].metricId = METRIC_ID_OIS =>
              /\ k > 1
              /\ origin[k - 1] = origin[k]
              /\ items_to_put[k - 1].metricId = METRIC_ID_IMPLIED_FF
         /\ items_to_put[k].metricId = METRIC_ID_IMPLIED_FF =>
              (k = 1 \/ origin[k - 1] < origin[k])

C10_Witness ==
    /\ pc = "put"
    /\ Len(put_log) >= 3
    /\ Len(put_log) < Len(items_to_put)
    /\ \E k \in 2..Len(put_log) : items_to_put[k].metricId = METRIC_ID_OIS
====
